---------------------------- MODULE Spec2Model ----------------------------
(***************************************************************************)
(* POS / MRP integration: the decision logic of                            *)
(*   models/product_template.py  (BOM resolution, component availability) *)
(*   models/pos_order.py         (order validation, batch sync, job        *)
(*                                creation on payment)                     *)
(* as a state machine over the record store the code reads and writes.    *)
(*                                                                         *)
(* Record ids are positive integers; 0 stands for Python's False / None   *)
(* (an empty Many2one, an omitted argument).  Quantities are floats in the *)
(* code and integers here: the code only multiplies, subtracts and         *)
(* compares them.                                                          *)
(***************************************************************************)
EXTENDS Integers, Sequences, FiniteSets, TLC

VARIABLES
    product_template,   \* product.template records: the POS MRP fields
    mrp_bom,            \* mrp.bom records (the BOM catalog)
    bom_scan,           \* the order in which the database yields mrp.bom rows that
                        \* compare equal under ORDER BY (search() adds no id tie-break)
    stock_warehouse,    \* stock.warehouse records
    stock_quant,        \* strict on-hand quantity per stock location and component
    pos_session,        \* pos.session records (company, warehouse of the config)
    mrp_production,     \* mrp.production records created so far (the job store)
    pc,                 \* "idle": no request in progress; "done": a call has returned
    out                 \* what the last call was given and what it returned or raised

vars == << product_template, mrp_bom, bom_scan, stock_warehouse, stock_quant,
           pos_session, mrp_production, pc, out >>

world == << product_template, mrp_bom, bom_scan, stock_warehouse, stock_quant,
            pos_session >>

----------------------------------------------------------------------------
(* Bounds of the model. *)

\* largest quantity requested of a product (order line qty, quantity argument)
MaxQty == 2
\* largest strict on-hand quantity of a component at a location
MaxStock == 2
\* most component lines on a BOM drawn for the availability check
MaxComponents == 2
\* most lines on an order
MaxLines == 2
\* most orders submitted in one sync_from_ui call
MaxBatch == 3
\* most orders paid in one action_pos_order_paid call
MaxPaid == 2
\* most mrp.production records in the job store
MaxJobs == 2
\* largest sequence number of a BOM
MaxSequence == 2

----------------------------------------------------------------------------
(* The universe of records. *)

None == 0

Companies == {1, 2}
\* self.env.company, the ambient company of the request
EnvCompany == 1

Templates == {1, 2}
\* product.product ids of the products sold; ProductTmplId is
\* product_id.product_tmpl_id.  Product 3 is a second variant of template 1.
Products == {1, 2}
ProductTmplId(p) == IF p = 3 THEN 1 ELSE p
\* the variants of template 1
Variants == {1, 3}
\* component products (raw materials)
Components == {11, 12}
BomIds == {1, 2}
WarehouseIds == {1, 2}
Locations == {1, 2}
SessionIds == {1}

display_name(p) ==
    CASE p = 1 -> "Table"
      [] p = 2 -> "Chair"
      [] p = 3 -> "Table (oak)"
      [] p = 11 -> "Wood"
      [] p = 12 -> "Screw"
      [] OTHER -> "?"

\* product.template name (self.name)
TemplateName(t) == display_name(t)

\* the unit of measure of a component's BOM line (line.product_uom_id.name)
UomName(c) == IF c = 11 THEN "m" ELSE "Units"

BomLine(c, q) == [product_id |-> c, product_qty |-> q, product_uom_id |-> UomName(c)]

\* the component lines a drawn BOM is made of
BomLineKinds == {BomLine(11, 1), BomLine(11, 2), BomLine(12, 1)}

RECURSIVE SeqsUpTo(_, _)
\* all sequences over S of length 0..n
SeqsUpTo(S, n) ==
    IF n = 0 THEN {<< >>}
    ELSE LET shorter == SeqsUpTo(S, n - 1)
         IN  shorter \cup {Append(s, x) : s \in {t \in shorter : Len(t) = n - 1}, x \in S}

\* F applied to the value of e: e is evaluated once, however often F uses it
Bind(e, F(_)) == CHOOSE r \in {F(x) : x \in {e}} : TRUE

----------------------------------------------------------------------------
(* models/product_template.py: get_pos_bom *)

\* the domain of the search in get_pos_bom: normal, active BOMs of the template,
\* narrowed by variant and company when these are given
PosBomDomain(t, product_id, company_id) ==
    {b \in BomIds :
        /\ mrp_bom[b].product_tmpl_id = t
        /\ mrp_bom[b].type = "normal"
        /\ mrp_bom[b].active
        /\ (product_id # None => mrp_bom[b].product_id \in {product_id, None})
        /\ (company_id # None => mrp_bom[b].company_id \in {company_id, None})}

\* position of BOM b in the database's scan order
ScanPos(b) == CHOOSE i \in 1..Len(bom_scan) : bom_scan[i] = b

\* order='sequence, product_id desc': a sorts strictly before b.  The search is an
\* SQL ORDER BY: under DESC a row whose product_id is NULL (a variant-agnostic BOM)
\* sorts before every row that names a variant; rows that name different variants
\* come in descending order; rows equal on both keys come in the database's scan
\* order.
BomBefore(a, b) ==
    \/ mrp_bom[a].sequence < mrp_bom[b].sequence
    \/ /\ mrp_bom[a].sequence = mrp_bom[b].sequence
       /\ mrp_bom[a].product_id = None
       /\ mrp_bom[b].product_id # None
    \/ /\ mrp_bom[a].sequence = mrp_bom[b].sequence
       /\ mrp_bom[a].product_id # None
       /\ mrp_bom[b].product_id # None
       /\ mrp_bom[a].product_id > mrp_bom[b].product_id
    \/ /\ mrp_bom[a].sequence = mrp_bom[b].sequence
       /\ mrp_bom[a].product_id = mrp_bom[b].product_id
       /\ ScanPos(a) < ScanPos(b)

\* self.env['mrp.bom'].search(domain, limit=1, order=...): the first row or None
SearchPosBom(t, product_id, company_id) ==
    LET dom == PosBomDomain(t, product_id, company_id)
    IN  IF dom = {} THEN None
        ELSE CHOOSE b \in dom : \A c \in dom \ {b} : BomBefore(b, c)

\* get_pos_bom(self=t, product_id, company_id): the BOM id, or None for False
get_pos_bom(t, product_id, company_id) ==
    IF product_template[t].pos_bom_id # None
    THEN product_template[t].pos_bom_id
    ELSE SearchPosBom(t, product_id, company_id)

----------------------------------------------------------------------------
(* models/product_template.py: check_components_availability *)

\* a mutation of ResolveLocation: the company's warehouse is always used
ResolveLocationCompanyOnly(company_id, warehouse_id) ==
    LET company == IF company_id # None THEN company_id ELSE EnvCompany
        found == {w \in WarehouseIds :
                    stock_warehouse[w].exists /\ stock_warehouse[w].company_id = company}
    IN  IF found = {} THEN None
        ELSE stock_warehouse[CHOOSE w \in found : \A v \in found : w <= v].lot_stock_id

\* the stock location of the check: the given warehouse's, else that of the first
\* warehouse of the company (the given one or the ambient one); None when neither
ResolveLocation(company_id, warehouse_id) ==
    LET given == IF warehouse_id # None /\ stock_warehouse[warehouse_id].exists
                 THEN stock_warehouse[warehouse_id].lot_stock_id
                 ELSE None
        company == IF company_id # None THEN company_id ELSE EnvCompany
        found == {w \in WarehouseIds :
                    stock_warehouse[w].exists /\ stock_warehouse[w].company_id = company}
    IN  IF given # None THEN given
        ELSE IF found = {} THEN None
        ELSE stock_warehouse[CHOOSE w \in found : \A v \in found : w <= v].lot_stock_id

\* self.env['stock.quant']._get_available_quantity(component, location, strict=True)
get_available_quantity(component, location) == stock_quant[location][component]

\* the entry appended for a component line that is short
ShortageEntry(line, required_qty, available_qty) ==
    [product   |-> display_name(line.product_id),
     required  |-> required_qty,
     available |-> available_qty,
     shortage  |-> required_qty - available_qty,
     uom       |-> line.product_uom_id]

RECURSIVE CheckEachComponentFirstOnly(_, _, _, _, _)
\* a mutation of CheckEachComponent: the scan stops at the first shortage
CheckEachComponentFirstOnly(bom_lines, i, quantity, location, result) ==
    IF i > Len(bom_lines) THEN result
    ELSE LET line == bom_lines[i]
             required_qty == line.product_qty * quantity
             available_qty == get_available_quantity(line.product_id, location)
         IN  IF available_qty < required_qty
             THEN [available |-> FALSE,
                   missing_components |->
                       Append(result.missing_components,
                              ShortageEntry(line, required_qty, available_qty))]
             ELSE CheckEachComponentFirstOnly(bom_lines, i + 1, quantity, location, result)

RECURSIVE CheckEachComponent(_, _, _, _, _)
\* "for line in bom_lines": lines i..Len(bom_lines), accumulating into result
CheckEachComponent(bom_lines, i, quantity, location, result) ==
    IF i > Len(bom_lines) THEN result
    ELSE LET line == bom_lines[i]
             required_qty == line.product_qty * quantity
             available_qty == get_available_quantity(line.product_id, location)
             next == IF available_qty < required_qty
                     THEN [available |-> FALSE,
                           missing_components |->
                               Append(result.missing_components,
                                      ShortageEntry(line, required_qty, available_qty))]
                     ELSE result
         IN  CheckEachComponent(bom_lines, i + 1, quantity, location, next)

\* a mutation of NoBomEntry: the numeric fields are zeroed
NoBomEntryZero(t, quantity) ==
    [product   |-> TemplateName(t),
     required  |-> 0,
     available |-> 0,
     shortage  |-> 0,
     reason    |-> "No BOM found"]

\* the entry of a check that found no BOM
NoBomEntry(t, quantity) ==
    [product   |-> TemplateName(t),
     required  |-> quantity,
     available |-> 0,
     shortage  |-> quantity,
     reason    |-> "No BOM found"]

\* the entry of a check that found no stock location
NoLocationEntry ==
    [product   |-> "System",
     required  |-> 0,
     available |-> 0,
     shortage  |-> 0,
     reason    |-> "No warehouse location found for stock check"]

\* a mutation of check_components_availability: the stock location is resolved
\* before the BOM's lines are looked at
CheckLocationFirst(t, product_id, quantity, company_id, warehouse_id) ==
    LET result == [available |-> TRUE, missing_components |-> << >>]
        bom == get_pos_bom(t, product_id, company_id)
    IN  IF bom = None
        THEN [available |-> FALSE, missing_components |-> << NoBomEntry(t, quantity) >>]
        ELSE LET bom_lines == mrp_bom[bom].bom_line_ids
                 location == ResolveLocation(company_id, warehouse_id)
             IN  IF location = None
                 THEN [available |-> FALSE, missing_components |-> << NoLocationEntry >>]
                 ELSE CheckEachComponent(bom_lines, 1, quantity, location, result)

\* check_components_availability(self=t, product_id, quantity, company_id, warehouse_id)
check_components_availability(t, product_id, quantity, company_id, warehouse_id) ==
    LET result == [available |-> TRUE, missing_components |-> << >>]
        bom == get_pos_bom(t, product_id, company_id)
    IN  IF bom = None
        THEN [available |-> FALSE, missing_components |-> << NoBomEntry(t, quantity) >>]
        ELSE LET bom_lines == mrp_bom[bom].bom_line_ids
                 location == ResolveLocation(company_id, warehouse_id)
             IN  IF bom_lines = << >> THEN result
                 ELSE IF location = None
                 THEN [available |-> FALSE, missing_components |-> << NoLocationEntry >>]
                 ELSE CheckEachComponent(bom_lines, 1, quantity, location, result)

----------------------------------------------------------------------------
(* The record store the availability check is run against. *)

DefaultTemplate ==
    [pos_mrp_enabled |-> TRUE, pos_mrp_auto_confirm |-> TRUE,
     pos_mrp_check_availability |-> TRUE, pos_bom_id |-> None]

Bom(t, lines, active, type) ==
    [product_tmpl_id |-> t, product_id |-> None, type |-> type, active |-> active,
     company_id |-> None, sequence |-> 1, bom_line_ids |-> lines]

\* warehouse w belongs to company w and stocks at location w
Warehouse(w, exists) == [exists |-> exists, company_id |-> w, lot_stock_id |-> w]

NoCall == [op |-> "none"]

InitCheck ==
    /\ product_template = [t \in Templates |-> DefaultTemplate]
    /\ \E lines \in SeqsUpTo(BomLineKinds, MaxComponents), active \in BOOLEAN,
          company \in {None, 1} :
          mrp_bom = [b \in BomIds |->
                        IF b = 1
                        THEN [Bom(1, lines, active, "normal") EXCEPT !.company_id = company]
                        ELSE Bom(2, << BomLine(11, 1) >>, TRUE, "normal")]
    /\ bom_scan = << 1, 2 >>
    /\ \E e1 \in BOOLEAN, e2 \in BOOLEAN :
          stock_warehouse = [w \in WarehouseIds |-> Warehouse(w, IF w = 1 THEN e1 ELSE e2)]
    /\ \E q \in [Components -> 0..MaxStock] :
          stock_quant = [l \in Locations |->
                            IF l = 1 THEN q ELSE [c \in Components |-> 0]]
    /\ pos_session = [s \in SessionIds |->
                         [exists |-> TRUE, company_id |-> 1, warehouse_id |-> 1]]
    /\ mrp_production = << >>
    /\ pc = "idle"
    /\ out = NoCall

\* a call of check_components_availability on template 1
CheckComponentsAvailability ==
    /\ pc = "idle"
    /\ \E quantity \in 0..MaxQty, company_id \in {None} \cup Companies,
          warehouse_id \in {None} \cup WarehouseIds :
          out' = [op |-> "check", tmpl |-> 1, product_id |-> 1, quantity |-> quantity,
                  company_id |-> company_id, warehouse_id |-> warehouse_id,
                  result |-> check_components_availability(1, 1, quantity, company_id,
                                                           warehouse_id)]
    /\ pc' = "done"
    /\ UNCHANGED << world, mrp_production >>

\* the call's result has been handed to its caller
Respond ==
    /\ pc = "done"
    /\ pc' = "idle"
    /\ out' = NoCall
    /\ UNCHANGED << world, mrp_production >>

NextCheck == CheckComponentsAvailability \/ Respond

SpecCheck == InitCheck /\ [][NextCheck]_vars

----------------------------------------------------------------------------
(* The BOM catalog get_pos_bom is run against. *)

\* the orders in which the database may yield the rows of mrp.bom
ScanOrders == {s \in [1..Cardinality(BomIds) -> BomIds] : \A b \in BomIds : \E i \in DOMAIN s : s[i] = b}

\* what the manufacturing configuration may make of a BOM: its sequence, the
\* variant and the company it is scoped to (or neither), usable, archived or a kit
BomConfigs ==
    [sequence : 1..MaxSequence, product_id : {None} \cup Variants,
     company_id : {None} \cup Companies,
     state : {[active |-> TRUE, type |-> "normal"], [active |-> FALSE, type |-> "normal"],
              [active |-> TRUE, type |-> "phantom"]}]

ConfiguredBom(t, cfg) ==
    [product_tmpl_id |-> t, product_id |-> cfg.product_id, type |-> cfg.state.type,
     active |-> cfg.state.active, company_id |-> cfg.company_id,
     sequence |-> cfg.sequence, bom_line_ids |-> << BomLine(11, 1) >>]

\* Template 1 with or without an explicitly set POS BOM; BOM 1 is a BOM of
\* template 1, BOM 2 one of template 1 or 2, each in any configuration; the rows of
\* mrp.bom lie in either order.
InitBom ==
    /\ \E pos_bom \in {None} \cup BomIds :
          product_template = [t \in Templates |->
                                 IF t = 1 THEN [DefaultTemplate EXCEPT !.pos_bom_id = pos_bom]
                                 ELSE DefaultTemplate]
    /\ \E c1 \in BomConfigs, c2 \in BomConfigs, t2 \in Templates :
          /\ (t2 = 2 => c2.product_id = None)
          /\ mrp_bom = [b \in BomIds |->
                           IF b = 1 THEN ConfiguredBom(1, c1) ELSE ConfiguredBom(t2, c2)]
    /\ bom_scan \in ScanOrders
    /\ stock_warehouse = [w \in WarehouseIds |-> Warehouse(w, TRUE)]
    /\ stock_quant = [l \in Locations |-> [c \in Components |-> 0]]
    /\ pos_session = [s \in SessionIds |->
                         [exists |-> TRUE, company_id |-> 1, warehouse_id |-> 1]]
    /\ mrp_production = << >>
    /\ pc = "idle"
    /\ out = NoCall

\* a call of get_pos_bom on template 1
GetPosBom ==
    /\ pc = "idle"
    /\ \E product_id \in {None, 1}, company_id \in {None, 1} :
          out' = [op |-> "get_pos_bom", tmpl |-> 1, product_id |-> product_id,
                  company_id |-> company_id,
                  result |-> get_pos_bom(1, product_id, company_id)]
    /\ pc' = "done"
    /\ UNCHANGED << world, mrp_production >>

NextBom == GetPosBom \/ Respond

SpecBom == InitBom /\ [][NextBom]_vars

----------------------------------------------------------------------------
(* models/pos_order.py: orders and their lines *)

\* An order is [name, company_id, session_id, lines]; as a pos.order record in
\* _validate_mrp_products, as the dict submitted by the POS client in sync_from_ui
\* (session_id is its 'pos_session_id').  A line is [form, product_id, qty]: form
\* "command" is a line the code can read (an (0, 0, vals) triple or a dict), form
\* "other" one it cannot (line_vals is None).
Line(form, product_id, qty) == [form |-> form, product_id |-> product_id, qty |-> qty]

Order(name, lines) == [name |-> name, company_id |-> 1, session_id |-> 1, lines |-> lines]

\* the warehouse of the order's session: config_id.picking_type_id.warehouse_id
SessionWarehouse(session_id) ==
    IF session_id # None /\ session_id \in SessionIds /\ pos_session[session_id].exists
    THEN pos_session[session_id].warehouse_id
    ELSE None

\* "if 'reason' in comp": how a shortage entry is shown in _validate_mrp_products
MissingInfo(comp) ==
    IF "reason" \in DOMAIN comp THEN << comp.reason >>
    ELSE << comp.product, comp.required, comp.uom, comp.available, comp.shortage >>

MapMissingInfo(comps) == [k \in 1..Len(comps) |-> MissingInfo(comps[k])]

\* a mutation of ValidateLine: availability is checked whatever the product's flag
ValidateLineAlwaysCheck(order, line, acc) ==
    LET product_tmpl == ProductTmplId(line.product_id)
        warehouse_id == SessionWarehouse(order.session_id)
    IN  IF ~product_template[product_tmpl].pos_mrp_enabled THEN acc
        ELSE IF get_pos_bom(product_tmpl, line.product_id, order.company_id) = None
        THEN [acc EXCEPT !.invalid_products = Append(@, display_name(line.product_id))]
        ELSE LET availability ==
                     check_components_availability(product_tmpl, line.product_id, line.qty,
                                                   order.company_id, warehouse_id)
             IN  IF availability.available THEN acc
                 ELSE [acc EXCEPT !.unavailable_products =
                          Append(@, [product |-> display_name(line.product_id),
                                     missing |-> MapMissingInfo(availability.missing_components)])]

\* one pass of "for line in self.lines" in _validate_mrp_products: acc is
\* [invalid_products, unavailable_products] after the line
ValidateLine(order, line, acc) ==
    LET product_tmpl == ProductTmplId(line.product_id)
        warehouse_id == SessionWarehouse(order.session_id)
    IN  IF ~product_template[product_tmpl].pos_mrp_enabled THEN acc
        ELSE IF get_pos_bom(product_tmpl, line.product_id, order.company_id) = None
        THEN [acc EXCEPT !.invalid_products = Append(@, display_name(line.product_id))]
        ELSE IF ~product_template[product_tmpl].pos_mrp_check_availability THEN acc
        ELSE LET availability ==
                     check_components_availability(product_tmpl, line.product_id, line.qty,
                                                   order.company_id, warehouse_id)
             IN  IF availability.available THEN acc
                 ELSE [acc EXCEPT !.unavailable_products =
                          Append(@, [product |-> display_name(line.product_id),
                                     missing |-> MapMissingInfo(availability.missing_components)])]

RECURSIVE ValidateLinesFirstOnly(_, _, _)
\* a mutation of ValidateLines: the pass stops at the first line that fails
ValidateLinesFirstOnly(order, i, acc) ==
    IF i > Len(order.lines) THEN acc
    ELSE LET next == ValidateLine(order, order.lines[i], acc)
         IN  IF next # acc THEN next ELSE ValidateLinesFirstOnly(order, i + 1, next)

RECURSIVE ValidateLines(_, _, _)
\* "for line in self.lines", lines i..Len(order.lines)
ValidateLines(order, i, acc) ==
    IF i > Len(order.lines) THEN acc
    ELSE ValidateLines(order, i + 1, ValidateLine(order, order.lines[i], acc))

\* _validate_mrp_products(self=order): the two lists it collected, which UserError
\* it raised ("none" when it returned) and what that error lists
validate_mrp_products(order) ==
    LET acc == ValidateLines(order, 1, [invalid_products |-> << >>,
                                        unavailable_products |-> << >>])
    IN  IF acc.invalid_products # << >>
        THEN [invalid_products |-> acc.invalid_products,
              unavailable_products |-> acc.unavailable_products,
              raised |-> "NoBomConfigured", message |-> acc.invalid_products]
        ELSE IF acc.unavailable_products # << >>
        THEN [invalid_products |-> acc.invalid_products,
              unavailable_products |-> acc.unavailable_products,
              raised |-> "InsufficientComponents", message |-> acc.unavailable_products]
        ELSE [invalid_products |-> acc.invalid_products,
              unavailable_products |-> acc.unavailable_products,
              raised |-> "none", message |-> << >>]

\* "if 'reason' in comp": how a shortage entry is shown in
\* _check_mrp_availability_for_order
Detail(comp) ==
    IF "reason" \in DOMAIN comp THEN << comp.reason >>
    ELSE << comp.product, comp.required, comp.available >>

MapDetail(comps) == [k \in 1..Len(comps) |-> Detail(comps[k])]

\* one pass of "for idx, line_data in enumerate(lines)" in
\* _check_mrp_availability_for_order: the list unavailable after the line
CheckLine(line, company_id, warehouse_id, unavailable) ==
    IF line.form # "command" THEN unavailable
    ELSE IF line.product_id = None \/ line.qty <= 0 THEN unavailable
    ELSE IF line.product_id \notin Products THEN unavailable
    ELSE LET product_tmpl == ProductTmplId(line.product_id)
         IN  IF ~product_template[product_tmpl].pos_mrp_enabled THEN unavailable
             ELSE IF ~product_template[product_tmpl].pos_mrp_check_availability
             THEN unavailable
             ELSE LET availability ==
                          check_components_availability(product_tmpl, line.product_id,
                                                        line.qty, company_id, warehouse_id)
                  IN  IF availability.available THEN unavailable
                      ELSE Append(unavailable,
                                  [product |-> display_name(line.product_id),
                                   details |-> MapDetail(availability.missing_components)])

RECURSIVE CheckLines(_, _, _, _, _)
\* "for idx, line_data in enumerate(lines)", lines i..Len(lines)
CheckLines(lines, i, company_id, warehouse_id, unavailable) ==
    IF i > Len(lines) THEN unavailable
    ELSE CheckLines(lines, i + 1, company_id, warehouse_id,
                    CheckLine(lines[i], company_id, warehouse_id, unavailable))

\* the value returned for an order that passes
NoError == << >>

\* _check_mrp_availability_for_order(order_data): NoError for None, else the
\* message: the order's name and the unavailable products
check_mrp_availability_for_order(order_data) ==
    IF order_data.lines = << >> THEN NoError
    ELSE LET session_ok == /\ order_data.session_id # None
                           /\ order_data.session_id \in SessionIds
                           /\ pos_session[order_data.session_id].exists
             company_id == IF session_ok THEN pos_session[order_data.session_id].company_id
                           ELSE EnvCompany
             warehouse_id == IF session_ok THEN pos_session[order_data.session_id].warehouse_id
                             ELSE None
             unavailable == CheckLines(order_data.lines, 1, company_id, warehouse_id, << >>)
         IN  IF unavailable # << >> THEN << order_data.name, unavailable >> ELSE NoError

----------------------------------------------------------------------------
(* models/pos_order.py: sync_from_ui *)

\* a mutation of SyncPartition: an order after a blocked one is dropped
RECURSIVE SyncPartitionDropAfterBlocked(_, _, _)
SyncPartitionDropAfterBlocked(orders, i, acc) ==
    IF i > Len(orders) THEN acc
    ELSE LET validation_error == check_mrp_availability_for_order(orders[i])
         IN  IF validation_error # NoError
             THEN SyncPartitionDropAfterBlocked(orders, i + 2,
                      [acc EXCEPT !.blocked_orders = Append(@, << orders[i], validation_error >>)])
             ELSE SyncPartitionDropAfterBlocked(orders, i + 1,
                      [acc EXCEPT !.valid_orders = Append(@, orders[i])])

\* a mutation of SyncPartition: an order that passes takes the stock, and an order
\* with lines that comes after it in the batch is blocked
RECURSIVE SyncPartitionReserving(_, _, _)
SyncPartitionReserving(orders, i, acc) ==
    IF i > Len(orders) THEN acc
    ELSE LET taken == \E n \in 1..Len(acc.valid_orders) : acc.valid_orders[n].lines # << >>
             validation_error ==
                 IF taken /\ orders[i].lines # << >> THEN << orders[i].name, << >> >>
                 ELSE check_mrp_availability_for_order(orders[i])
         IN  IF validation_error # NoError
             THEN SyncPartitionReserving(orders, i + 1,
                      [acc EXCEPT !.blocked_orders = Append(@, << orders[i], validation_error >>)])
             ELSE SyncPartitionReserving(orders, i + 1,
                      [acc EXCEPT !.valid_orders = Append(@, orders[i])])

RECURSIVE SyncPartition(_, _, _)
\* "for order_data in orders": acc is [valid_orders, blocked_orders]
SyncPartition(orders, i, acc) ==
    IF i > Len(orders) THEN acc
    ELSE LET validation_error == check_mrp_availability_for_order(orders[i])
         IN  IF validation_error # NoError
             THEN SyncPartition(orders, i + 1,
                      [acc EXCEPT !.blocked_orders = Append(@, << orders[i], validation_error >>)])
             ELSE SyncPartition(orders, i + 1,
                      [acc EXCEPT !.valid_orders = Append(@, orders[i])])

\* super().sync_from_ui(orders): the downstream persistence path creates a
\* pos.order for every order it is handed
SuperSyncFromUi(orders) == [pos_order |-> orders]

\* a mutation of SyncDecide: a batch with a blocked order is handed on whole
SyncDecideAll(orders, valid_orders, blocked_orders) ==
    IF Len(orders) = 1 /\ blocked_orders # << >>
    THEN [raised |-> TRUE, error |-> blocked_orders[1][2], super_calls |-> << >>,
          result |-> [pos_order |-> << >>]]
    ELSE [raised |-> FALSE, error |-> NoError, super_calls |-> << orders >>,
          result |-> SuperSyncFromUi(orders)]

\* a mutation of SyncDecide: a failing order is raised whatever the batch size
SyncDecideRaiseAny(orders, valid_orders, blocked_orders) ==
    IF blocked_orders # << >>
    THEN [raised |-> TRUE, error |-> blocked_orders[1][2], super_calls |-> << >>,
          result |-> [pos_order |-> << >>]]
    ELSE [raised |-> FALSE, error |-> NoError, super_calls |-> << orders >>,
          result |-> SuperSyncFromUi(orders)]

\* a mutation of SyncDecide: a single failing order is skipped like a batch's
SyncDecideNeverRaise(orders, valid_orders, blocked_orders) ==
    IF blocked_orders # << >>
    THEN IF valid_orders = << >>
         THEN [raised |-> FALSE, error |-> NoError, super_calls |-> << >>,
               result |-> [pos_order |-> << >>]]
         ELSE [raised |-> FALSE, error |-> NoError, super_calls |-> << valid_orders >>,
               result |-> SuperSyncFromUi(valid_orders)]
    ELSE [raised |-> FALSE, error |-> NoError, super_calls |-> << orders >>,
          result |-> SuperSyncFromUi(orders)]

\* the three scenarios of sync_from_ui after the partition: whether UserError is
\* raised and with what, the calls of super().sync_from_ui, and the value returned
SyncDecide(orders, valid_orders, blocked_orders) ==
    IF Len(orders) = 1 /\ blocked_orders # << >>
    THEN [raised |-> TRUE, error |-> blocked_orders[1][2], super_calls |-> << >>,
          result |-> [pos_order |-> << >>]]
    ELSE IF Len(orders) > 1 /\ blocked_orders # << >>
    THEN IF valid_orders = << >>
         THEN [raised |-> FALSE, error |-> NoError, super_calls |-> << >>,
               result |-> [pos_order |-> << >>]]
         ELSE [raised |-> FALSE, error |-> NoError, super_calls |-> << valid_orders >>,
               result |-> SuperSyncFromUi(valid_orders)]
    ELSE [raised |-> FALSE, error |-> NoError, super_calls |-> << orders >>,
          result |-> SuperSyncFromUi(orders)]

\* sync_from_ui(orders)
sync_from_ui(orders) ==
    LET part == SyncPartition(orders, 1, [valid_orders |-> << >>, blocked_orders |-> << >>])
        end == SyncDecide(orders, part.valid_orders, part.blocked_orders)
    IN  [valid_orders |-> part.valid_orders, blocked_orders |-> part.blocked_orders,
         raised |-> end.raised, error |-> end.error, super_calls |-> end.super_calls,
         result |-> end.result]

----------------------------------------------------------------------------
(* models/pos_order.py: _create_manufacturing_orders, action_pos_order_paid *)

\* stock.picking.type records: the manufacturing operation of warehouse 1
StockPickingTypes ==
    {[id |-> 1, code |-> "incoming", warehouse_id |-> 1, company_id |-> 1],
     [id |-> 2, code |-> "mrp_operation", warehouse_id |-> 1, company_id |-> 1]}

\* search(domain, limit=1) on stock.picking.type: the id of the first match or None
FirstPickingType(matches) ==
    IF matches = {} THEN None
    ELSE (CHOOSE pt \in matches : \A other \in matches : pt.id <= other.id).id

\* _get_mrp_picking_type(self=order)
get_mrp_picking_type(order) ==
    LET warehouse == SessionWarehouse(order.session_id)
        of_warehouse ==
            IF warehouse = None THEN None
            ELSE FirstPickingType({pt \in StockPickingTypes :
                                      /\ pt.code = "mrp_operation"
                                      /\ pt.warehouse_id = warehouse
                                      /\ pt.company_id = order.company_id})
    IN  IF of_warehouse # None THEN of_warehouse
        ELSE FirstPickingType({pt \in StockPickingTypes :
                                  /\ pt.code = "mrp_operation"
                                  /\ pt.company_id = order.company_id})

\* _prepare_mrp_production_vals(self=order, line, bom); k is the line's number, and
\* << order.name, k >> stands for line.id
prepare_mrp_production_vals(order, k, bom) ==
    [product_id        |-> order.lines[k].product_id,
     product_qty       |-> order.lines[k].qty,
     product_uom_id    |-> "Units",
     bom_id            |-> bom,
     pos_order_id      |-> order.name,
     pos_order_line_id |-> << order.name, k >>,
     origin            |-> order.name,
     company_id        |-> order.company_id,
     picking_type_id   |-> get_mrp_picking_type(order)]

\* MrpProduction.create(vals): the new record, in state draft
NewProduction(store, vals) ==
    [id |-> Len(store) + 1, state |-> "draft", vals |-> vals]

\* Where mrp.production fails in a call: the at-th create of the call raises in
\* "create", or its action_confirm raises in "confirm"; at = 0: nothing fails.
NoFailure == [at |-> 0, step |-> "create"]

\* a fresh accumulator of job creation on job store `store`
NewAcc(store) ==
    [store |-> store, created |-> << >>, calls |-> 0, raised |-> FALSE,
     failed_product |-> "", log |-> << >>]

\* a mutation of CreateLine: the job is left in draft whatever the product's flag
CreateLineNoConfirm(order, k, acc, fail) ==
    LET line == order.lines[k]
        product_tmpl == ProductTmplId(line.product_id)
        bom == get_pos_bom(product_tmpl, line.product_id, order.company_id)
        call == acc.calls + 1
        production == NewProduction(acc.store, prepare_mrp_production_vals(order, k, bom))
        created == Append(acc.log, << "create", order.name, k >>)
    IN  IF ~product_template[product_tmpl].pos_mrp_enabled \/ line.qty <= 0 THEN acc
        ELSE IF bom = None THEN acc
        ELSE IF fail.at = call /\ fail.step = "create"
        THEN [acc EXCEPT !.calls = call, !.raised = TRUE, !.log = created,
                         !.failed_product = display_name(line.product_id)]
        ELSE [acc EXCEPT !.calls = call, !.log = created,
                         !.store = Append(@, production),
                         !.created = Append(@, production.id)]

\* a mutation of CreateLine: a failure is logged and the loop goes on
CreateLineSwallow(order, k, acc, fail) ==
    LET line == order.lines[k]
        product_tmpl == ProductTmplId(line.product_id)
        bom == get_pos_bom(product_tmpl, line.product_id, order.company_id)
        call == acc.calls + 1
        production == NewProduction(acc.store, prepare_mrp_production_vals(order, k, bom))
        confirmed == [production EXCEPT !.state = "confirmed"]
        auto == product_template[product_tmpl].pos_mrp_auto_confirm
        created == Append(acc.log, << "create", order.name, k >>)
    IN  IF ~product_template[product_tmpl].pos_mrp_enabled \/ line.qty <= 0 THEN acc
        ELSE IF bom = None THEN acc
        ELSE IF fail.at = call /\ fail.step = "create"
        THEN [acc EXCEPT !.calls = call, !.log = created]
        ELSE [acc EXCEPT !.calls = call,
                         !.log = IF auto THEN Append(created, << "confirm", order.name, k >>)
                                 ELSE created,
                         !.store = Append(@, IF auto THEN confirmed ELSE production),
                         !.created = Append(@, production.id)]

\* a mutation of CreateLine: a line of quantity zero gets a job as well
CreateLineAnyQty(order, k, acc, fail) ==
    LET line == order.lines[k]
        product_tmpl == ProductTmplId(line.product_id)
        bom == get_pos_bom(product_tmpl, line.product_id, order.company_id)
        call == acc.calls + 1
        production == NewProduction(acc.store, prepare_mrp_production_vals(order, k, bom))
        confirmed == [production EXCEPT !.state = "confirmed"]
        auto == product_template[product_tmpl].pos_mrp_auto_confirm
        created == Append(acc.log, << "create", order.name, k >>)
    IN  IF ~product_template[product_tmpl].pos_mrp_enabled THEN acc
        ELSE IF bom = None THEN acc
        ELSE IF fail.at = call /\ fail.step = "create"
        THEN [acc EXCEPT !.calls = call, !.raised = TRUE, !.log = created,
                         !.failed_product = display_name(line.product_id)]
        ELSE IF fail.at = call /\ fail.step = "confirm" /\ auto
        THEN [acc EXCEPT !.calls = call, !.raised = TRUE,
                         !.log = Append(created, << "confirm", order.name, k >>),
                         !.store = Append(@, production),
                         !.failed_product = display_name(line.product_id)]
        ELSE [acc EXCEPT !.calls = call,
                         !.log = IF auto THEN Append(created, << "confirm", order.name, k >>)
                                 ELSE created,
                         !.store = Append(@, IF auto THEN confirmed ELSE production),
                         !.created = Append(@, production.id)]

\* one pass of "for line in self.lines" of _create_manufacturing_orders on line k;
\* acc is [store, created, calls, raised, failed_product, log]: the job store, the
\* ids of created_productions, the number of create calls made so far, the
\* UserError if any, and the calls made on mrp.production in order:
\* << "create", order, line >> for MrpProduction.create(vals) and
\* << "confirm", order, line >> for production.action_confirm()
CreateLine(order, k, acc, fail) ==
    LET line == order.lines[k]
        product_tmpl == ProductTmplId(line.product_id)
        bom == get_pos_bom(product_tmpl, line.product_id, order.company_id)
        call == acc.calls + 1
        production == NewProduction(acc.store, prepare_mrp_production_vals(order, k, bom))
        confirmed == [production EXCEPT !.state = "confirmed"]
        auto == product_template[product_tmpl].pos_mrp_auto_confirm
        created == Append(acc.log, << "create", order.name, k >>)
    IN  IF ~product_template[product_tmpl].pos_mrp_enabled \/ line.qty <= 0 THEN acc
        ELSE IF bom = None THEN acc
        ELSE IF fail.at = call /\ fail.step = "create"
        THEN [acc EXCEPT !.calls = call, !.raised = TRUE, !.log = created,
                         !.failed_product = display_name(line.product_id)]
        ELSE IF fail.at = call /\ fail.step = "confirm" /\ auto
        THEN [acc EXCEPT !.calls = call, !.raised = TRUE,
                         !.log = Append(created, << "confirm", order.name, k >>),
                         !.store = Append(@, production),
                         !.failed_product = display_name(line.product_id)]
        ELSE [acc EXCEPT !.calls = call,
                         !.log = IF auto THEN Append(created, << "confirm", order.name, k >>)
                                 ELSE created,
                         !.store = Append(@, IF auto THEN confirmed ELSE production),
                         !.created = Append(@, production.id)]

RECURSIVE CreateLines(_, _, _, _)
\* "for line in self.lines", lines k..Len(order.lines); a raise ends the loop
CreateLines(order, k, acc, fail) ==
    Bind(acc, LAMBDA a :
        IF k > Len(order.lines) \/ a.raised THEN a
        ELSE CreateLines(order, k + 1, CreateLine(order, k, a, fail), fail))

\* _create_manufacturing_orders(self=order) on job store acc.store
create_manufacturing_orders(order, acc, fail) ==
    CreateLines(order, 1, [acc EXCEPT !.created = << >>], fail)

\* the stored computed field has_mrp_products
has_mrp_products(order) ==
    \E k \in 1..Len(order.lines) :
        product_template[ProductTmplId(order.lines[k].product_id)].pos_mrp_enabled

RECURSIVE ValidateEach(_, _, _)
\* "for order in self: order._validate_mrp_products()": the events logged and the
\* first UserError raised, "none" if none
ValidateEach(orders, i, events) ==
    IF i > Len(orders) THEN [raised |-> "none", events |-> events]
    ELSE LET r == validate_mrp_products(orders[i])
             logged == Append(events, << "validate", orders[i].name >>)
         IN  IF r.raised # "none" THEN [raised |-> r.raised, events |-> logged]
             ELSE ValidateEach(orders, i + 1, logged)

RECURSIVE CreateEach(_, _, _, _)
\* "for order in self: if order.has_mrp_products: order._create_manufacturing_orders()";
\* run is [acc, events]
CreateEach(orders, i, run, fail) ==
    Bind(run, LAMBDA r :
        IF i > Len(orders) \/ r.acc.raised THEN r
        ELSE IF ~has_mrp_products(orders[i]) THEN CreateEach(orders, i + 1, r, fail)
        ELSE CreateEach(orders, i + 1,
                 [acc |-> create_manufacturing_orders(orders[i], r.acc, fail),
                  events |-> Append(r.events, << "create", orders[i].name >>)], fail))

\* a mutation of action_pos_order_paid: the payment is processed first, the orders
\* are validated afterwards
PayThenValidate(orders, store, paid, fail) ==
    IF ~paid
    THEN [raised |-> "Payment", failed_product |-> "", events |-> << << "payment" >> >>,
          store |-> store, log |-> << >>]
    ELSE Bind(ValidateEach(orders, 1, << << "payment" >> >>), LAMBDA checked :
             IF checked.raised # "none"
             THEN [raised |-> checked.raised, failed_product |-> "",
                   events |-> checked.events, store |-> store, log |-> << >>]
             ELSE Bind(CreateEach(orders, 1, [acc |-> NewAcc(store), events |-> checked.events],
                                  fail),
                       LAMBDA made :
                           [raised |-> IF made.acc.raised THEN "JobCreationFailed" ELSE "none",
                            failed_product |-> made.acc.failed_product,
                            events |-> made.events, store |-> made.acc.store,
                            log |-> made.acc.log]))

\* action_pos_order_paid(self=orders) on job store `store`; paid tells whether
\* super().action_pos_order_paid() succeeds.  The result: the error raised ("none"
\* if it returned), the product a job creation failed for, the events in order,
\* and the job store afterwards.
action_pos_order_paid(orders, store, paid, fail) ==
    Bind(ValidateEach(orders, 1, << >>), LAMBDA checked :
        IF checked.raised # "none"
        THEN [raised |-> checked.raised, failed_product |-> "",
              events |-> checked.events, store |-> store, log |-> << >>]
        ELSE IF ~paid
        THEN [raised |-> "Payment", failed_product |-> "",
              events |-> Append(checked.events, << "payment" >>), store |-> store,
              log |-> << >>]
        ELSE Bind(CreateEach(orders, 1,
                             [acc |-> NewAcc(store),
                              events |-> Append(checked.events, << "payment" >>)], fail),
                  LAMBDA made :
                      [raised |-> IF made.acc.raised THEN "JobCreationFailed" ELSE "none",
                       failed_product |-> made.acc.failed_product,
                       events |-> made.events, store |-> made.acc.store,
                       log |-> made.acc.log]))

----------------------------------------------------------------------------
(* The record store orders are validated against, and the calls. *)

\* The BOM of template 1 as the manufacturing configuration left it: usable,
\* archived, or turned into a kit.  (The constraint _check_pos_mrp_bom runs when the
\* product is written, not when its BOM is.)
BomStates == {[active |-> TRUE, type |-> "normal"],
              [active |-> FALSE, type |-> "normal"],
              [active |-> TRUE, type |-> "phantom"]}

\* Template 1 ("Table", BOM 1: 1 Wood + 1 Screw) in any configuration; template 2
\* ("Chair", BOM 2: 2 Wood) manufactured, with or without the availability check.
\* One session, of company 1, selling from warehouse 1, which holds one Screw and
\* Wood in a quantity of WoodStock.
InitOrderWorld(AutoConfirm, WoodStock) ==
    /\ \E enabled \in BOOLEAN, check1 \in BOOLEAN, check2 \in BOOLEAN,
          pos_bom \in {None, 1}, auto \in AutoConfirm :
          product_template =
              [t \in Templates |->
                  IF t = 1
                  THEN [pos_mrp_enabled |-> enabled, pos_mrp_auto_confirm |-> auto,
                        pos_mrp_check_availability |-> check1, pos_bom_id |-> pos_bom]
                  ELSE [DefaultTemplate EXCEPT !.pos_mrp_check_availability = check2]]
    /\ \E st \in BomStates :
          mrp_bom = [b \in BomIds |->
                        IF b = 1
                        THEN Bom(1, << BomLine(11, 1), BomLine(12, 1) >>, st.active, st.type)
                        ELSE Bom(2, << BomLine(11, 2) >>, TRUE, "normal")]
    /\ bom_scan = << 1, 2 >>
    /\ stock_warehouse = [w \in WarehouseIds |-> Warehouse(w, TRUE)]
    /\ \E wood \in WoodStock :
          stock_quant = [l \in Locations |->
                            IF l = 1 THEN [c \in Components |-> IF c = 11 THEN wood ELSE 1]
                            ELSE [c \in Components |-> 0]]
    /\ pos_session = [s \in SessionIds |->
                         [exists |-> TRUE, company_id |-> 1, warehouse_id |-> 1]]
    /\ mrp_production = << >>
    /\ pc = "idle"
    /\ out = NoCall

Init == InitOrderWorld({TRUE}, 0..MaxStock)

\* the lines of pos.order records
RecordLines == {Line("command", p, q) : p \in Products, q \in 0..MaxQty}

\* the lines the POS client may submit: also unreadable ones, ones without a
\* product and ones of a product that does not exist
UiLines == RecordLines \cup {Line("other", 1, 1), Line("command", None, 1),
                             Line("command", 9, 1)}

\* a call of _validate_mrp_products on an order
ValidateMrpProducts ==
    /\ pc = "idle"
    /\ \E lines \in SeqsUpTo(RecordLines, MaxLines) :
          out' = [op |-> "validate", order |-> Order(1, lines),
                  result |-> validate_mrp_products(Order(1, lines))]
    /\ pc' = "done"
    /\ UNCHANGED << world, mrp_production >>

\* a call of _check_mrp_availability_for_order on a submitted order
CheckMrpAvailabilityForOrder ==
    /\ pc = "idle"
    /\ \E lines \in SeqsUpTo(UiLines, MaxLines) :
          out' = [op |-> "check_order", order |-> Order(1, lines),
                  result |-> check_mrp_availability_for_order(Order(1, lines))]
    /\ pc' = "done"
    /\ UNCHANGED << world, mrp_production >>

Next == ValidateMrpProducts \/ CheckMrpAvailabilityForOrder \/ Respond

Spec == Init /\ [][Next]_vars

\* the orders a batch is drawn from: without lines, of one product, of both, and
\* one with an unreadable line, a line of quantity zero and a line of a larger quantity
SubmittedLines ==
    {<< >>,
     << Line("command", 1, 1) >>,
     << Line("command", 2, 1) >>,
     << Line("command", 1, 1), Line("command", 2, 1) >>,
     << Line("other", 1, 1), Line("command", 2, 0), Line("command", 1, MaxQty) >>}

\* a call of sync_from_ui; the POS client names each order it submits
SyncFromUi ==
    /\ pc = "idle"
    /\ \E batch \in SeqsUpTo(SubmittedLines, MaxBatch) :
          LET orders == [i \in 1..Len(batch) |-> Order(i, batch[i])]
          IN  out' = [op |-> "sync", orders |-> orders, result |-> sync_from_ui(orders)]
    /\ pc' = "done"
    /\ UNCHANGED << world, mrp_production >>

NextSync == SyncFromUi \/ Respond

SpecSync == Init /\ [][NextSync]_vars

\* the shops of Init in which the Table is manufactured from its default BOM: the
\* orders of a batch draw on the same Wood
InitShared ==
    /\ Init
    /\ product_template[1].pos_mrp_enabled
    /\ product_template[1].pos_bom_id = None

SpecShared == InitShared /\ [][NextSync]_vars

\* the orders a paid recordset is drawn from
PaidLines ==
    {<< Line("command", 1, 1) >>,
     << Line("command", 2, 1) >>,
     << Line("command", 1, 1), Line("command", 2, 1) >>,
     << Line("command", 2, 0), Line("command", 1, MaxQty) >>}

RECURSIVE TotalLines(_)
\* the number of lines of the orders of a recordset
TotalLines(batch) ==
    IF batch = << >> THEN 0 ELSE Len(Head(batch)) + TotalLines(Tail(batch))

\* a call of action_pos_order_paid on a recordset of orders
ActionPosOrderPaid ==
    /\ pc = "idle"
    /\ \E batch \in SeqsUpTo(PaidLines, MaxPaid) \ {<< >>}, paid \in BOOLEAN,
          at \in 0..MaxJobs, step \in {"create", "confirm"} :
          LET orders == [i \in 1..Len(batch) |-> Order(i, batch[i])]
              fail == [at |-> at, step |-> step]
          IN  /\ Len(mrp_production) + TotalLines(batch) <= MaxJobs
              /\ (at = 0 => step = "create")
              /\ at <= TotalLines(batch)
              /\ (~paid => at = 0)
              /\ \E result \in {action_pos_order_paid(orders, mrp_production, paid, fail)} :
                    /\ out' = [op |-> "paid", orders |-> orders, paid |-> paid,
                               fail |-> fail, before |-> mrp_production,
                               result |-> [raised |-> result.raised,
                                           failed_product |-> result.failed_product,
                                           events |-> result.events,
                                           log |-> result.log]]
                    /\ mrp_production' = result.store
    /\ pc' = "done"
    /\ UNCHANGED world

\* a call of _create_manufacturing_orders on one order
CreateManufacturingOrders ==
    /\ pc = "idle"
    /\ \E lines \in PaidLines, at \in 0..MaxJobs, step \in {"create", "confirm"} :
          LET order == Order(1, lines)
              fail == [at |-> at, step |-> step]
          IN  /\ Len(mrp_production) + Len(lines) <= MaxJobs
              /\ (at = 0 => step = "create")
              /\ at <= Len(lines)
              /\ \E acc \in {create_manufacturing_orders(order, NewAcc(mrp_production), fail)} :
                    /\ out' = [op |-> "create", order |-> order, fail |-> fail,
                               before |-> mrp_production,
                               result |-> [raised |-> acc.raised,
                                           failed_product |-> acc.failed_product,
                                           created |-> acc.created,
                                           log |-> acc.log]]
                    /\ mrp_production' = acc.store
    /\ pc' = "done"
    /\ UNCHANGED world

\* the shop of Init with either auto-confirm setting of template 1 and one Wood: enough
\* for one Table, short for two Tables and for a Chair
InitPaid == InitOrderWorld(BOOLEAN, {1})

NextPaid == ActionPosOrderPaid \/ CreateManufacturingOrders \/ Respond

SpecPaid == InitPaid /\ [][NextPaid]_vars

----------------------------------------------------------------------------
(* Claims about check_components_availability, checked under SpecCheck. *)

\* the call that has returned is a call of check_components_availability
CheckReturned == pc = "done" /\ out.op = "check"

\* what the returned check was run on
CheckedBom == get_pos_bom(out.tmpl, out.product_id, out.company_id)
CheckedLines == mrp_bom[CheckedBom].bom_line_ids

\* the location the spec prescribes: the warehouse named by warehouseId when it is
\* one, else the default warehouse of the company (the caller's if unset)
RefLocation ==
    IF out.warehouse_id # None /\ stock_warehouse[out.warehouse_id].exists
    THEN stock_warehouse[out.warehouse_id].lot_stock_id
    ELSE LET company == IF out.company_id # None THEN out.company_id ELSE EnvCompany
             found == {w \in WarehouseIds : stock_warehouse[w].exists
                                            /\ stock_warehouse[w].company_id = company}
         IN  IF found = {} THEN None
             ELSE stock_warehouse[CHOOSE w \in found : \A v \in found : w <= v].lot_stock_id

\* the reference computation: the component lines that are short at location loc
RefRequired(i) == CheckedLines[i].product_qty * out.quantity
RefShort(loc) ==
    {i \in 1..Len(CheckedLines) : stock_quant[loc][CheckedLines[i].product_id] < RefRequired(i)}
\* the k-th short line, in BOM order
RefShortAt(loc, k) ==
    CHOOSE i \in RefShort(loc) : Cardinality({j \in RefShort(loc) : j < i}) = k - 1
RefEntries(loc) ==
    [k \in 1..Cardinality(RefShort(loc)) |->
        LET i == RefShortAt(loc, k)
        IN  [product   |-> display_name(CheckedLines[i].product_id),
             required  |-> RefRequired(i),
             available |-> stock_quant[loc][CheckedLines[i].product_id],
             shortage  |-> RefRequired(i) - stock_quant[loc][CheckedLines[i].product_id],
             uom       |-> CheckedLines[i].product_uom_id]]

\* C6: for a BOM with at least one component and a resolvable stock location, the
\* report holds exactly one shortage entry per component line whose strict on-hand
\* quantity is below perUnitQty * targetQty (with required, available, shortage =
\* required - available and the line's unit of measure), in BOM order, none for any
\* other line, and available is true iff there is no entry.
C6_ReportIsReference ==
    (CheckReturned /\ CheckedBom # None /\ CheckedLines # << >> /\ RefLocation # None)
        => /\ out.result.missing_components = RefEntries(RefLocation)
           /\ out.result.available = (out.result.missing_components = << >>)

\* a check of a two-line BOM where the second line is short as well as the first
C6_Witness ==
    /\ CheckReturned /\ CheckedBom # None /\ RefLocation # None
    /\ Len(CheckedLines) = 2
    /\ RefShort(RefLocation) = {1, 2}
    /\ Len(out.result.missing_components) = 2

\* C9: with at least one component and no stock location resolvable (neither from
\* warehouseId nor from the company's default warehouse) the report is unavailable
\* with exactly one entry, carrying the no-location reason and zero required,
\* available and shortage; and when warehouseId names a warehouse, the stock is
\* read at that warehouse's location, not at the company default's.
C9_NoLocationFailsClosed ==
    (CheckReturned /\ CheckedBom # None /\ CheckedLines # << >>)
        => /\ RefLocation = None =>
                /\ out.result.available = FALSE
                /\ Len(out.result.missing_components) = 1
                /\ "reason" \in DOMAIN out.result.missing_components[1]
                /\ out.result.missing_components[1].reason
                      = "No warehouse location found for stock check"
                /\ out.result.missing_components[1].required = 0
                /\ out.result.missing_components[1].available = 0
                /\ out.result.missing_components[1].shortage = 0
           /\ (out.warehouse_id # None /\ stock_warehouse[out.warehouse_id].exists) =>
                out.result.missing_components
                    = RefEntries(stock_warehouse[out.warehouse_id].lot_stock_id)

\* a check of a BOM with components for which no location resolves
C9_Witness ==
    /\ CheckReturned /\ CheckedBom # None /\ CheckedLines # << >>
    /\ RefLocation = None
    /\ out.warehouse_id # None
    /\ out.result.available = FALSE

\* C10 as stated: with no BOM resolvable the report is unavailable with exactly one
\* entry carrying the NO_BOM reason whose required, available and shortage are all
\* zero, for every requested quantity.
C10_NoBomZeroFields ==
    (CheckReturned /\ CheckedBom = None)
        => /\ out.result.available = FALSE
           /\ Len(out.result.missing_components) = 1
           /\ out.result.missing_components[1].reason = "No BOM found"
           /\ out.result.missing_components[1].required = 0
           /\ out.result.missing_components[1].available = 0
           /\ out.result.missing_components[1].shortage = 0

\* C10 amended: with no BOM resolvable the report is unavailable with exactly one
\* entry carrying the NO_BOM reason; its available is zero and its required and
\* shortage both equal the requested quantity.
C10_NoBomEntry ==
    (CheckReturned /\ CheckedBom = None)
        => /\ out.result.available = FALSE
           /\ Len(out.result.missing_components) = 1
           /\ "reason" \in DOMAIN out.result.missing_components[1]
           /\ out.result.missing_components[1].reason = "No BOM found"
           /\ out.result.missing_components[1].required = out.quantity
           /\ out.result.missing_components[1].available = 0
           /\ out.result.missing_components[1].shortage = out.quantity

\* a check of a positive quantity that found no BOM
C10_Witness ==
    /\ CheckReturned /\ CheckedBom = None
    /\ out.quantity = MaxQty
    /\ out.result.missing_components[1].shortage = MaxQty

\* C11: for a BOM with zero components the check returns available = true with an
\* empty shortage list, for every requested quantity and whether or not a stock
\* location can be resolved.
C11_EmptyBomIsAvailable ==
    (CheckReturned /\ CheckedBom # None /\ CheckedLines = << >>)
        => /\ out.result.available = TRUE
           /\ out.result.missing_components = << >>

\* a check of the largest quantity against an empty BOM when no location resolves
C11_Witness ==
    /\ CheckReturned /\ CheckedBom # None /\ CheckedLines = << >>
    /\ RefLocation = None
    /\ out.quantity = MaxQty
    /\ out.result.available = TRUE

----------------------------------------------------------------------------
(* Claims about get_pos_bom, checked under SpecBom. *)

GetReturned == pc = "done" /\ out.op = "get_pos_bom"

\* the BOMs that match the call: normal-kind, active BOMs of the product, of the
\* company or company-global, of the variant or variant-agnostic
Matching ==
    {b \in BomIds :
        /\ mrp_bom[b].product_tmpl_id = out.tmpl
        /\ mrp_bom[b].type = "normal" /\ mrp_bom[b].active
        /\ mrp_bom[b].company_id \in {out.company_id, None}
        /\ mrp_bom[b].product_id \in {out.product_id, None}}

\* C12: resolution follows the stated priority.  An explicitly configured BOM is
\* returned regardless of company and variant; otherwise (for a call that names a
\* variant and a company) NotFound is returned iff no BOM matches, and else the
\* result is a matching BOM of the lowest sequence number and, among the matching
\* BOMs of that sequence, one that names the exact variant if there is one.
C12_ResolutionPriority ==
    GetReturned =>
        /\ product_template[out.tmpl].pos_bom_id # None
              => out.result = product_template[out.tmpl].pos_bom_id
        /\ (/\ product_template[out.tmpl].pos_bom_id = None
            /\ out.product_id # None /\ out.company_id # None)
              => /\ (out.result = None) <=> (Matching = {})
                 /\ out.result # None =>
                       /\ out.result \in Matching
                       /\ \A b \in Matching :
                             /\ mrp_bom[out.result].sequence <= mrp_bom[b].sequence
                             /\ (/\ mrp_bom[b].sequence = mrp_bom[out.result].sequence
                                 /\ mrp_bom[b].product_id = out.product_id)
                                   => mrp_bom[out.result].product_id = out.product_id

\* the position of BOM b in scan order s
PosIn(s, b) == CHOOSE i \in DOMAIN s : s[i] = b

\* what the same call returns when the database yields the rows of mrp.bom in
\* order s instead: the same catalog, inserted in another order
ResultUnder(s) ==
    LET dom == PosBomDomain(out.tmpl, out.product_id, out.company_id)
        keys(b) == << mrp_bom[b].sequence, mrp_bom[b].product_id >>
        first(b) == \A c \in dom \ {b} :
                       \/ BomBefore(b, c) /\ keys(b) # keys(c)
                       \/ keys(b) = keys(c) /\ PosIn(s, b) < PosIn(s, c)
    IN  IF product_template[out.tmpl].pos_bom_id # None
        THEN product_template[out.tmpl].pos_bom_id
        ELSE IF dom = {} THEN None
        ELSE CHOOSE b \in dom : first(b)

\* C13: resolution is deterministic: the BOM returned for a product, variant and
\* company against a given catalog is the same whatever the order in which the BOMs
\* were inserted, also when several matching BOMs share the same sequence number and
\* the same variant-specificity.
C13_ResolutionIsDeterministic ==
    GetReturned => \A s \in ScanOrders : out.result = ResultUnder(s)



SyncReturned == pc = "done" /\ out.op = "sync"

\* order_data passes its own validation
Passes(order_data) == check_mrp_availability_for_order(order_data) = NoError

\* the submitted orders that pass, in their submitted order
PassingOrders == SelectSeq(out.orders, Passes)

\* the names of the orders in a list of orders / of (order, error) pairs
NamesOf(orders) == {orders[i].name : i \in 1..Len(orders)}
BlockedNames == {out.result.blocked_orders[i][1].name :
                    i \in 1..Len(out.result.blocked_orders)}

\* the orders handed to super().sync_from_ui, over all its calls
Committed == UNION {NamesOf(out.result.super_calls[k]) : k \in 1..Len(out.result.super_calls)}

\* C1: in a batch of two or more orders of which some pass and some fail, the
\* downstream persistence path is handed exactly the passing orders, in their
\* submitted order; every failing order is deferred and no passing one is dropped.
C1_MixedBatchCommitsValid ==
    (/\ SyncReturned /\ Len(out.orders) >= 2
     /\ \E i \in 1..Len(out.orders) : Passes(out.orders[i])
     /\ \E i \in 1..Len(out.orders) : ~Passes(out.orders[i]))
        => /\ ~out.result.raised
           /\ out.result.super_calls = << PassingOrders >>
           /\ out.result.result = [pos_order |-> PassingOrders]
           /\ \A i \in 1..Len(out.orders) :
                 /\ ~Passes(out.orders[i]) => out.orders[i].name \in BlockedNames \ Committed
                 /\ Passes(out.orders[i]) => out.orders[i].name \in Committed

\* a batch of three where the second order fails and the others pass (scenario D)
C1_Witness ==
    /\ SyncReturned /\ Len(out.orders) = 3
    /\ Passes(out.orders[1]) /\ ~Passes(out.orders[2]) /\ Passes(out.orders[3])
    /\ out.orders[1].lines # << >> /\ out.orders[3].lines # << >>
    /\ Committed = {1, 3}
    /\ BlockedNames = {2}

\* C2: a single submitted order that fails validation makes the call raise with
\* that order's message; the downstream path is not called, nothing is committed
\* and no production job is created.
C2_SingleFailingOrderRaises ==
    (SyncReturned /\ Len(out.orders) = 1 /\ ~Passes(out.orders[1]))
        => /\ out.result.raised
           /\ out.result.error = check_mrp_availability_for_order(out.orders[1])
           /\ out.result.super_calls = << >>
           /\ out.result.result.pos_order = << >>
           /\ mrp_production = << >>

\* a single order that failed
C2_Witness ==
    /\ SyncReturned /\ Len(out.orders) = 1 /\ ~Passes(out.orders[1])
    /\ out.result.raised

\* C3: a batch of two or more orders that all fail does not raise: it returns an
\* empty commit result, the downstream path is not called and every order is deferred.
C3_AllFailingBatchReturnsEmpty ==
    (/\ SyncReturned /\ Len(out.orders) >= 2
     /\ \A i \in 1..Len(out.orders) : ~Passes(out.orders[i]))
        => /\ ~out.result.raised
           /\ out.result.result = [pos_order |-> << >>]
           /\ out.result.super_calls = << >>
           /\ BlockedNames = NamesOf(out.orders)

\* a batch of several orders that all failed
C3_Witness ==
    /\ SyncReturned /\ Len(out.orders) >= 2
    /\ \A i \in 1..Len(out.orders) : ~Passes(out.orders[i])
    /\ ~out.result.raised

\* a readable line of positive quantity whose product is manufacturing-enabled and
\* has no resolvable BOM
LineLacksBom(order, line) ==
    /\ line.form = "command" /\ line.product_id \in Products /\ line.qty > 0
    /\ product_template[ProductTmplId(line.product_id)].pos_mrp_enabled
    /\ get_pos_bom(ProductTmplId(line.product_id), line.product_id, order.company_id) = None

OrderLacksBom(order) == \E k \in 1..Len(order.lines) : LineLacksBom(order, order.lines[k])

\* C4: an order with a line whose product is manufacturing-enabled and has no
\* resolvable BOM is blocked on every path, whatever the product's checkAvailability
\* flag: _validate_mrp_products raises the missing-BOM error, and sync_from_ui never
\* hands the order to the downstream persistence path.
C4_MissingBomAlwaysBlocks ==
    /\ (pc = "done" /\ out.op = "validate" /\ OrderLacksBom(out.order))
          => out.result.raised = "NoBomConfigured"
    /\ SyncReturned
          => \A i \in 1..Len(out.orders) :
                OrderLacksBom(out.orders[i]) => out.orders[i].name \notin Committed

\* C8: every submitted order is in exactly one of valid and blocked:
\* |valid| + |blocked| = |submitted|, the two are disjoint, and an order is in
\* blocked iff its own validation returned a failure.
C8_BatchPartition ==
    SyncReturned
        => /\ Len(out.result.valid_orders) + Len(out.result.blocked_orders) = Len(out.orders)
           /\ NamesOf(out.result.valid_orders) \cap BlockedNames = {}
           /\ \A i \in 1..Len(out.orders) :
                 /\ out.orders[i].name \in BlockedNames <=> ~Passes(out.orders[i])
                 /\ out.orders[i].name \in NamesOf(out.result.valid_orders)
                       <=> Passes(out.orders[i])

\* a batch where a blocked order is followed by a valid one and by a blocked one
C8_Witness ==
    /\ SyncReturned /\ Len(out.orders) = 3
    /\ BlockedNames = {1, 3}
    /\ NamesOf(out.result.valid_orders) = {2}

\* the batches the submitted orders can be rearranged into
Rearranged ==
    LET n == Len(out.orders)
    IN  {[i \in 1..n |-> out.orders[f[i]]] :
            f \in {g \in [1..n -> 1..n] : \A a \in 1..n : \E i \in 1..n : g[i] = a}}

\* the names of the orders a call of sync_from_ui on orders blocks
BlockedBy(orders) ==
    LET r == sync_from_ui(orders)
    IN  {r.blocked_orders[i][1].name : i \in 1..Len(r.blocked_orders)}

\* C18: a call of sync_from_ui leaves the stock ledger, the BOM catalog and the job
\* store as they were; the orders it blocks are the same for every rearrangement of
\* the batch, and an order is blocked in the batch iff it is blocked when submitted
\* alone, also when several orders draw on the same limited component stock.
C18_ValidationIsSideEffectFree ==
    /\ [][(pc = "idle" /\ pc' = "done")
             => UNCHANGED << stock_quant, mrp_bom, mrp_production >>]_vars
    /\ [](SyncReturned =>
             /\ \A batch \in Rearranged : BlockedBy(batch) = BlockedNames
             /\ \A i \in 1..Len(out.orders) :
                   (out.orders[i].name \in BlockedNames)
                       <=> (BlockedBy(<< out.orders[i] >>) # {}))

\* a batch of two orders that each pass and together need more Wood than there is
C18_Witness ==
    /\ SyncReturned /\ Len(out.orders) = 2
    /\ product_template[1].pos_mrp_enabled /\ product_template[1].pos_mrp_check_availability
    /\ get_pos_bom(1, 1, 1) = 1 /\ mrp_bom[1].active /\ mrp_bom[1].type = "normal"
    /\ out.orders[1].lines = << Line("command", 1, 1) >>
    /\ out.orders[2].lines = << Line("command", 1, 1) >>
    /\ stock_quant[1][11] = 1
    /\ mrp_bom[1].bom_line_ids[1] = BomLine(11, 1)
    /\ BlockedNames = {}
    /\ Committed = {1, 2}

----------------------------------------------------------------------------
(* Claims about _validate_mrp_products, checked under Spec. *)

ValidateReturned == pc = "done" /\ out.op = "validate"

\* the lines of the validated order that are manufacturing-enabled
EnabledLine(k) ==
    product_template[ProductTmplId(out.order.lines[k].product_id)].pos_mrp_enabled
LineBom(k) ==
    get_pos_bom(ProductTmplId(out.order.lines[k].product_id),
                out.order.lines[k].product_id, out.order.company_id)
\* the lines whose BOM does not resolve
RefMissingBom == {k \in 1..Len(out.order.lines) : EnabledLine(k) /\ LineBom(k) = None}
\* the lines whose BOM resolves, whose product is checked and whose report is unavailable
RefUnavailable ==
    {k \in 1..Len(out.order.lines) :
        /\ EnabledLine(k) /\ LineBom(k) # None
        /\ product_template[ProductTmplId(out.order.lines[k].product_id)]
              .pos_mrp_check_availability
        /\ ~check_components_availability(
               ProductTmplId(out.order.lines[k].product_id), out.order.lines[k].product_id,
               out.order.lines[k].qty, out.order.company_id,
               SessionWarehouse(out.order.session_id)).available}

\* the k-th element of a set of line numbers, in line order
NthOf(S, k) == CHOOSE i \in S : Cardinality({j \in S : j < i}) = k - 1

\* C7: validation inspects every line before raising: missingBomProducts holds every
\* manufacturing-enabled line whose BOM does not resolve, unavailableProducts every
\* manufacturing-enabled line whose BOM resolves, whose product has checkAvailability
\* set and whose report is unavailable; validation succeeds iff both are empty, and
\* when both are non-empty the missing-BOM failure is the one raised.
C7_ValidationIsExhaustive ==
    ValidateReturned
        => /\ out.result.invalid_products =
                 [k \in 1..Cardinality(RefMissingBom) |->
                     display_name(out.order.lines[NthOf(RefMissingBom, k)].product_id)]
           /\ Len(out.result.unavailable_products) = Cardinality(RefUnavailable)
           /\ \A k \in 1..Cardinality(RefUnavailable) :
                 out.result.unavailable_products[k].product =
                     display_name(out.order.lines[NthOf(RefUnavailable, k)].product_id)
           /\ (out.result.raised = "none") <=> (RefMissingBom = {} /\ RefUnavailable = {})
           /\ RefMissingBom # {} => out.result.raised = "NoBomConfigured"
           /\ (RefMissingBom = {} /\ RefUnavailable # {})
                 => out.result.raised = "InsufficientComponents"

\* an order whose first line lacks a BOM and whose second line is short of components
C7_Witness ==
    /\ ValidateReturned /\ Len(out.order.lines) = 2
    /\ RefMissingBom = {1} /\ RefUnavailable = {2}
    /\ out.result.raised = "NoBomConfigured"
    /\ Len(out.result.unavailable_products) = 1

----------------------------------------------------------------------------
(* Claims about the job store, checked under SpecPaid. *)

\* C5: every production job that exists was created while a normal-kind, active BOM
\* was resolvable for its target product, and the BOM recorded on the job is such a
\* BOM, also when it comes from the product's explicitly configured BOM reference.
\* (The BOM catalog does not change in SpecPaid: a job's BOM is now what it was
\* when the job was created.)
C5_JobsHaveNormalActiveBom ==
    \A j \in 1..Len(mrp_production) :
        LET bom == mrp_bom[mrp_production[j].vals.bom_id]
        IN  /\ bom.active
            /\ bom.type = "normal"
            /\ bom.product_tmpl_id = ProductTmplId(mrp_production[j].vals.product_id)

\* a call of action_pos_order_paid or of _create_manufacturing_orders has returned
JobsReturned == pc = "done" /\ out.op \in {"paid", "create"}

\* the orders the returned call was made on
CalledOrders == IF out.op = "paid" THEN out.orders ELSE << out.order >>

\* the returned call ran to its end without raising
Completed == IF out.op = "paid" THEN out.result.raised = "none" ELSE ~out.result.raised

\* the jobs the returned call added to the job store
NewJobs == (Len(out.before) + 1)..Len(mrp_production)

\* the new jobs that name line k of order as their originating line
JobsOfLine(order, k) ==
    {j \in NewJobs : mrp_production[j].vals.pos_order_line_id = << order.name, k >>}

LineTmpl(order, k) == ProductTmplId(order.lines[k].product_id)

LineEnabled(order, k) == product_template[LineTmpl(order, k)].pos_mrp_enabled

LineResolves(order, k) ==
    get_pos_bom(LineTmpl(order, k), order.lines[k].product_id, order.company_id) # None

\* line k is of a manufacturing-enabled product with checkAvailability = false and
\* a resolvable BOM
Unchecked(order, k) ==
    /\ LineEnabled(order, k)
    /\ ~product_template[LineTmpl(order, k)].pos_mrp_check_availability
    /\ LineResolves(order, k)

\* the components of line k are short at the order's warehouse
LineIsShort(order, k) ==
    ~check_components_availability(LineTmpl(order, k), order.lines[k].product_id,
                                   order.lines[k].qty, order.company_id,
                                   SessionWarehouse(order.session_id)).available

\* the product names a validation result holds against the order
NamesHeld(v) ==
    {v.invalid_products[n] : n \in 1..Len(v.invalid_products)}
        \cup {v.unavailable_products[n].product : n \in 1..Len(v.unavailable_products)}

\* the product names the batch path's message holds against the order
NamesBlocked(e) == IF e = NoError THEN {} ELSE {e[2][n].product : n \in 1..Len(e[2])}

\* C14: a line of a manufacturing-enabled product with checkAvailability = false and
\* a resolvable BOM never fails validation, whatever the stock of its components:
\* neither _validate_mrp_products nor the batch path's check holds its product
\* against the order, an order (a paid recordset) whose manufactured lines are all
\* of this kind passes, and a job creation that completes has created a job for the
\* line if its quantity is positive.
C14_UncheckedProductPasses ==
    JobsReturned =>
        /\ \A i \in 1..Len(CalledOrders) :
              LET order == CalledOrders[i]
                  lines == 1..Len(order.lines)
              IN  /\ \A k \in lines :
                        Unchecked(order, k) =>
                            /\ display_name(order.lines[k].product_id)
                                  \notin NamesHeld(validate_mrp_products(order))
                            /\ display_name(order.lines[k].product_id)
                                  \notin NamesBlocked(check_mrp_availability_for_order(order))
                            /\ (Completed /\ order.lines[k].qty > 0)
                                  => JobsOfLine(order, k) # {}
                  /\ (\A k \in lines : LineEnabled(order, k) => Unchecked(order, k))
                        => /\ validate_mrp_products(order).raised = "none"
                           /\ check_mrp_availability_for_order(order) = NoError
        /\ (/\ out.op = "paid"
            /\ \A i \in 1..Len(out.orders) : \A k \in 1..Len(out.orders[i].lines) :
                  LineEnabled(out.orders[i], k) => Unchecked(out.orders[i], k))
              => out.result.raised \notin {"NoBomConfigured", "InsufficientComponents"}

\* a paid order of one unchecked product whose components are short: it was
\* validated, paid, and its job was created
C14_Witness ==
    /\ pc = "done" /\ out.op = "paid" /\ Len(out.orders) = 1
    /\ Len(out.orders[1].lines) = 1
    /\ Unchecked(out.orders[1], 1)
    /\ out.orders[1].lines[1].qty > 0
    /\ LineIsShort(out.orders[1], 1)
    /\ out.result.raised = "none"
    /\ JobsOfLine(out.orders[1], 1) # {}

\* the autoConfirmJob flag of the product of job j
JobAutoConfirm(j) ==
    product_template[ProductTmplId(mrp_production[j].vals.product_id)].pos_mrp_auto_confirm

\* the flag of the product of the line a logged call is about
LoggedAutoConfirm(entry) ==
    LET order == CHOOSE o \in {CalledOrders[i] : i \in 1..Len(CalledOrders)} : o.name = entry[2]
    IN  product_template[LineTmpl(order, entry[3])].pos_mrp_auto_confirm

\* C15: every job returned by _create_manufacturing_orders is in state confirmed if
\* its product's autoConfirmJob flag is set and in state draft otherwise (the flags
\* do not change in SpecPaid); a confirm is always the call that directly follows
\* the create of the same line, and in a run that completes every create of a
\* flagged product is directly followed by its confirm, before any other line.
C15_AutoConfirmImmediately ==
    JobsReturned =>
        LET log == out.result.log
        IN  /\ Completed =>
                  \A j \in NewJobs :
                      mrp_production[j].state = IF JobAutoConfirm(j) THEN "confirmed"
                                                ELSE "draft"
            /\ \A n \in 1..Len(log) :
                  log[n][1] = "confirm" =>
                      /\ n > 1
                      /\ log[n - 1] = << "create", log[n][2], log[n][3] >>
                      /\ LoggedAutoConfirm(log[n])
            /\ Completed =>
                  \A n \in 1..Len(log) :
                      (log[n][1] = "create" /\ LoggedAutoConfirm(log[n])) =>
                          /\ n < Len(log)
                          /\ log[n + 1] = << "confirm", log[n][2], log[n][3] >>

\* an order of two lines: the job of the first is left in draft, the job of the
\* second was confirmed right after its creation
C15_Witness ==
    /\ pc = "done" /\ out.op = "create" /\ ~out.result.raised
    /\ Len(out.order.lines) = 2
    /\ out.result.log = << << "create", 1, 1 >>, << "create", 1, 2 >>, << "confirm", 1, 2 >> >>
    /\ Len(out.before) = 0 /\ Len(mrp_production) = 2
    /\ mrp_production[1].state = "draft"
    /\ mrp_production[2].state = "confirmed"

IsCreate(entry) == entry[1] = "create"

\* the create calls of the returned call, in order
CreateEntries == SelectSeq(out.result.log, IsCreate)

\* the order a logged call is about
LoggedOrder(entry) ==
    CHOOSE o \in {CalledOrders[i] : i \in 1..Len(CalledOrders)} : o.name = entry[2]

\* the injected failure was reached: the failing create was called, and, for a
\* failing confirm, its product is auto-confirmed
FailureReached ==
    /\ out.fail.at >= 1
    /\ Len(CreateEntries) >= out.fail.at
    /\ out.fail.step = "confirm" => LoggedAutoConfirm(CreateEntries[out.fail.at])

\* the call raised the job-creation error
RaisedJobError ==
    IF out.op = "paid" THEN out.result.raised = "JobCreationFailed" ELSE out.result.raised

\* C16: when the creation or the confirmation of a line's job fails, the call raises
\* an error naming the failing product; the failing call is the last call made (no
\* retry, no later line or order processed); and the jobs created before it are
\* still in the job store: one for each earlier create, after the jobs that were
\* there before the call.
C16_FailureIsTerminalNoRollback ==
    JobsReturned =>
        /\ RaisedJobError <=> FailureReached
        /\ FailureReached =>
              LET log == out.result.log
                  failing == CreateEntries[out.fail.at]
                  order == LoggedOrder(failing)
              IN  /\ out.result.failed_product
                        = display_name(order.lines[failing[3]].product_id)
                  /\ Len(CreateEntries) = out.fail.at
                  /\ log[Len(log)] = << out.fail.step, failing[2], failing[3] >>
                  /\ \A n \in 1..Len(log) : \A m \in 1..Len(log) :
                        (log[n] = log[m]) => n = m
                  /\ SubSeq(mrp_production, 1, Len(out.before)) = out.before
                  /\ \A n \in 1..(out.fail.at - 1) :
                        Cardinality(JobsOfLine(LoggedOrder(CreateEntries[n]),
                                               CreateEntries[n][3])) = 1
                  /\ Cardinality(NewJobs)
                        = IF out.fail.step = "create" THEN out.fail.at - 1 ELSE out.fail.at

\* an order of two lines whose second job could not be created: the job of the
\* first line is in the store, the error names the second line's product
C16_Witness ==
    /\ pc = "done" /\ out.op = "create" /\ out.result.raised
    /\ out.fail = [at |-> 2, step |-> "create"]
    /\ Len(out.order.lines) = 2
    /\ out.result.failed_product = display_name(out.order.lines[2].product_id)
    /\ Cardinality(JobsOfLine(out.order, 1)) = 1
    /\ JobsOfLine(out.order, 2) = {}

\* line k of order is one a job is due for: its product is manufacturing-enabled,
\* its quantity strictly positive and its BOM resolves
JobDue(order, k) ==
    /\ LineEnabled(order, k)
    /\ order.lines[k].qty > 0
    /\ LineResolves(order, k)

\* the lines of the called orders, as << order number, line number >>
CalledLines ==
    UNION {{<< i, k >> : k \in 1..Len(CalledOrders[i].lines)} : i \in 1..Len(CalledOrders)}

\* C17: when job creation completes without error it has created exactly one job
\* for each line whose product is manufacturing-enabled, whose quantity is strictly
\* positive and whose BOM resolves, and no other job; the job names the line and
\* its order as its origin and its product and quantity are the line's; the jobs
\* returned are the jobs created.
C17_OneJobPerDueLine ==
    (JobsReturned /\ Completed) =>
        /\ \A ik \in CalledLines :
              LET order == CalledOrders[ik[1]]
                  k == ik[2]
              IN  /\ Cardinality(JobsOfLine(order, k)) = IF JobDue(order, k) THEN 1 ELSE 0
                  /\ \A j \in JobsOfLine(order, k) :
                        /\ mrp_production[j].vals.pos_order_id = order.name
                        /\ mrp_production[j].vals.origin = order.name
                        /\ mrp_production[j].vals.product_id = order.lines[k].product_id
                        /\ mrp_production[j].vals.product_qty = order.lines[k].qty
                        /\ mrp_production[j].vals.company_id = order.company_id
        /\ Cardinality(NewJobs)
              = Cardinality({ik \in CalledLines : JobDue(CalledOrders[ik[1]], ik[2])})
        /\ SubSeq(mrp_production, 1, Len(out.before)) = out.before
        /\ out.op = "create" =>
              out.result.created = [n \in 1..Cardinality(NewJobs) |->
                                       mrp_production[Len(out.before) + n].id]

\* an order whose first line has quantity zero and whose second line is due a job:
\* the one job created is the second line's
C17_Witness ==
    /\ pc = "done" /\ out.op = "create" /\ ~out.result.raised
    /\ Len(out.order.lines) = 2
    /\ out.order.lines[1].qty = 0 /\ LineEnabled(out.order, 1) /\ LineResolves(out.order, 1)
    /\ JobDue(out.order, 2)
    /\ Cardinality(NewJobs) = 1
    /\ JobsOfLine(out.order, 2) = NewJobs
    /\ mrp_production[Len(mrp_production)].vals.product_qty = MaxQty

PaidReturned == pc = "done" /\ out.op = "paid"

\* order i of the paid recordset fails its validation
FailsValidation(i) == validate_mrp_products(out.orders[i]).raised # "none"

\* the positions of the payment in the events of the returned call
PaymentAt == {m \in 1..Len(out.result.events) : out.result.events[m] = << "payment" >>}

\* the order of the recordset with the given name
OrderNamed(name) == CHOOSE o \in {out.orders[i] : i \in 1..Len(out.orders)} : o.name = name

\* C19: in action_pos_order_paid every order of the recordset is validated before
\* the payment is processed; if the validation of any order fails, the payment is
\* not processed and no job is created for any order; jobs are created only after
\* the payment has been processed successfully, and only for orders with at least
\* one manufacturing-enabled line (for each of them, when nothing fails).
C19_ValidateAllThenPayThenCreate ==
    PaidReturned =>
        LET events == out.result.events
            n == Len(out.orders)
        IN  /\ \A m \in PaymentAt :
                  /\ m = n + 1
                  /\ \A i \in 1..n : events[i] = << "validate", out.orders[i].name >>
            /\ (\E i \in 1..n : FailsValidation(i)) =>
                  /\ PaymentAt = {}
                  /\ NewJobs = {}
                  /\ out.result.log = << >>
                  /\ out.result.raised \in {"NoBomConfigured", "InsufficientComponents"}
            /\ (\A i \in 1..n : ~FailsValidation(i)) => PaymentAt = {n + 1}
            /\ \A m \in 1..Len(events) :
                  events[m][1] = "create" =>
                      /\ out.paid
                      /\ \E p \in PaymentAt : p < m
                      /\ has_mrp_products(OrderNamed(events[m][2]))
            /\ \A m \in 1..Len(out.result.log) :
                  \E e \in 1..Len(events) : events[e] = << "create", out.result.log[m][2] >>
            /\ NewJobs # {} => (out.paid /\ PaymentAt # {})
            /\ out.result.raised = "none" =>
                  \A i \in 1..n :
                      has_mrp_products(out.orders[i])
                          <=> \E m \in 1..Len(events) :
                                 events[m] = << "create", out.orders[i].name >>

\* a recordset of two orders of which the second fails its validation: both were
\* validated, no payment was processed and no job was created for the first
C19_Witness ==
    /\ PaidReturned /\ Len(out.orders) = 2
    /\ ~FailsValidation(1) /\ FailsValidation(2)
    /\ has_mrp_products(out.orders[1])
    /\ \E k \in 1..Len(out.orders[1].lines) : JobDue(out.orders[1], k)
    /\ out.paid
    /\ out.result.events = << << "validate", 1 >>, << "validate", 2 >> >>
    /\ mrp_production = out.before

=============================================================================
